---- MODULE Spec2Model ----
(***************************************************************************)
(* Job compilation of the two Flamenco job types BeFrames_BlenderPath and   *)
(* BeFrames_RootBased: validation, output-path resolution, frame chunking   *)
(* and task authoring, as performed by compileJob.                          *)
(*                                                                          *)
(* Strings are sequences of one-character strings, so that the regular      *)
(* expression of renderOutputPath, trim(), replaceAll() and the frame-range *)
(* syntax are modelled character by character.  A text that the job types   *)
(* only pass along or compare as a whole (a flag, a format identifier, a    *)
(* line of the overwrite script) is kept in one piece.                      *)
(***************************************************************************)
EXTENDS Integers, Sequences, FiniteSets, TLC

VARIABLES
    pc,            \* position inside compileJob, or "idle" / "done" / "failed"
    jobType,       \* which job type file compiles the job
    created,       \* job.created
    submitted,     \* the settings as evaluated at submission (the input)
    settings,      \* job.settings, the object compileJob reads and writes
    renderOutput,  \* local const renderOutput of compileJob
    tasks,         \* local const tasks of compileJob (result of authorRenderTasks)
    jobTasks,      \* the tasks added to the job with job.addTask, in order
    error,         \* the value thrown out of compileJob, NoError if none
    prev,          \* the render output of the previous submission of this scene
    nsub           \* number of submissions so far

vars == <<pc, jobType, created, submitted, settings, renderOutput, tasks,
          jobTasks, error, prev, nsub>>

----------------------------------------------------------------------------
(* Bounds of the model *)

MaxFrame == 5

MaxChunk == 2

MaxCreated == 2

MaxSubmissions == 2

MaxSegments == 3

----------------------------------------------------------------------------
(* String helpers *)

undefined == <<"undefined">>

WhiteSpace == {" ", "\t", "\n", "\r"}

RECURSIVE Concat(_)
Concat(ss) == IF ss = <<>> THEN <<>> ELSE Head(ss) \o Concat(Tail(ss))

\* s.includes(t): t occurs in s as a contiguous substring
Includes(s, t) ==
    \E i \in 1..(Len(s) - Len(t) + 1) : SubSeq(s, i, i + Len(t) - 1) = t

\* String.prototype.trim
RECURSIVE TrimLeft(_)
TrimLeft(s) ==
    IF s # <<>> /\ Head(s) \in WhiteSpace THEN TrimLeft(Tail(s)) ELSE s

RECURSIVE TrimRight(_)
TrimRight(s) ==
    IF s # <<>> /\ s[Len(s)] \in WhiteSpace
    THEN TrimRight(SubSeq(s, 1, Len(s) - 1))
    ELSE s

trim(s) == TrimRight(TrimLeft(s))

\* chunk.replaceAll("-", "..")
RECURSIVE replaceAllDash(_)
replaceAllDash(s) ==
    IF s = <<>> THEN <<>>
    ELSE (IF Head(s) = "-" THEN <<".", ".">> ELSE <<Head(s)>>)
         \o replaceAllDash(Tail(s))

\* index of the first c in s at or after position i, 0 if there is none
RECURSIVE IndexFrom(_, _, _)
IndexFrom(s, c, i) ==
    IF i > Len(s) THEN 0
    ELSE IF s[i] = c THEN i
    ELSE IndexFrom(s, c, i + 1)

\* index of the last c in s, 0 if there is none
RECURSIVE LastIndex(_, _)
LastIndex(s, c) ==
    IF s = <<>> THEN 0
    ELSE IF s[Len(s)] = c THEN Len(s)
    ELSE LastIndex(SubSeq(s, 1, Len(s) - 1), c)

----------------------------------------------------------------------------
(* Literals of the job types *)

FFMPEG == <<"FFMPEG">>

AVI_RAW == <<"AVI_RAW">>

AVI_JPEG == <<"AVI_JPEG">>

OPEN_EXR == <<"OPEN_EXR">>

videoFormats == {FFMPEG, AVI_RAW, AVI_JPEG}

timestampKey == <<"t", "i", "m", "e", "s", "t", "a", "m", "p">>

timestampPlaceholder == <<"{">> \o timestampKey \o <<"}">>

framePadding == <<"_", "#", "#", "#", "#", "#", "#">>

ArgScene == <<"--scene">>

ArgPythonExpr == <<"--python-expr">>

ArgRenderOutput == <<"--render-output">>

ArgRenderFormat == <<"--render-format">>

ArgRenderFrame == <<"--render-frame">>

overwriteScript ==
    <<"import bpy\n",
      "for s in bpy.data.scenes:\n",
      "    s.render.use_overwrite = True\n",
      "    s.render.use_placeholder = False\n">>

taskNamePrefix == <<"render-">>

\* the values thrown by compileJob and by frameChunker
UnsupportedFormat == "Video formats are not supported by this job type (image sequences only)."

MissingRequiredSetting == "Render Output Root is required for the RootBased job type."

MalformedFrameRange == "MalformedFrameRange"

InvalidChunkSize == "InvalidChunkSize"

NoError == "none"

BlenderPath == "BeFrames_BlenderPath_v8"

RootBased == "BeFrames_RootBased_v8"

----------------------------------------------------------------------------
(* Flamenco built-ins the job types call: timestamp, path, frame chunker *)

Digits == <<"0", "1", "2", "3", "4", "5", "6", "7", "8", "9">>

IsDigit(c) == \E d \in 1..Len(Digits) : Digits[d] = c

DigitValue(c) == (CHOOSE d \in 1..Len(Digits) : Digits[d] = c) - 1

RECURSIVE IntToStr(_)
IntToStr(n) ==
    IF n < Len(Digits) THEN <<Digits[n + 1]>>
    ELSE IntToStr(n \div Len(Digits)) \o <<Digits[(n % Len(Digits)) + 1]>>

\* value of a non-empty string of digits, -1 for anything else
RECURSIVE ParseInt(_)
ParseInt(s) ==
    IF s = <<>> \/ ~IsDigit(s[Len(s)]) THEN -1
    ELSE IF Len(s) = 1 THEN DigitValue(s[1])
    ELSE LET hi == ParseInt(SubSeq(s, 1, Len(s) - 1))
         IN  IF hi < 0 THEN -1 ELSE hi * Len(Digits) + DigitValue(s[Len(s)])

RECURSIVE Split(_, _)
Split(s, c) ==
    LET i == IndexFrom(s, c, 1)
    IN  IF i = 0 THEN <<s>>
        ELSE <<SubSeq(s, 1, i - 1)>> \o Split(SubSeq(s, i + 1, Len(s)), c)

\* formatTimestampLocal(job.created): the local time of creation, one text per
\* second, e.g. 2025-12-18_10-12-33; created counts seconds within the minute
formatTimestampLocal(t) ==
    <<"2", "0", "2", "5", "-", "1", "2", "-", "1", "8", "_",
      "1", "0", "-", "1", "2", "-">>
    \o (IF t < Len(Digits) THEN <<"0">> ELSE <<>>) \o IntToStr(t)

\* path.dirname
dirname(p) ==
    LET i == LastIndex(p, "/")
    IN  IF i = 0 THEN <<".">>
        ELSE IF i = 1 THEN <<"/">>
        ELSE SubSeq(p, 1, i - 1)

\* path.basename
basename(p) == SubSeq(p, LastIndex(p, "/") + 1, Len(p))

\* path.join of a directory and a file name
join(d, b) ==
    IF d = <<>> \/ d = <<".">> THEN b
    ELSE IF d[Len(d)] = "/" THEN d \o b
    ELSE d \o <<"/">> \o b

\* one comma-separated part of a frame-range expression: "7" or "3-9"
ParsePart(part) ==
    LET pieces == Split(trim(part), "-")
        a == ParseInt(trim(pieces[1]))
        b == ParseInt(trim(pieces[Len(pieces)]))
    IN  IF Len(pieces) > 2 \/ a < 0 \/ b < 0 \/ a > b
        THEN [ok |-> FALSE, frames |-> {}]
        ELSE [ok |-> TRUE, frames |-> a..b]

\* the frame-range expression as a set of frame numbers
ParseFrames(expr) ==
    LET parts == Split(expr, ",")
        each == [i \in 1..Len(parts) |-> ParsePart(parts[i])]
    IN  [ok |-> \A i \in 1..Len(parts) : each[i].ok,
         frames |-> UNION {each[i].frames : i \in 1..Len(parts)}]

Min(S) == CHOOSE x \in S : \A y \in S : x <= y

RECURSIVE SortedSeq(_)
SortedSeq(S) ==
    IF S = {} THEN <<>> ELSE <<Min(S)>> \o SortedSeq(S \ {Min(S)})

\* consecutive groups of at most n frames
RECURSIVE Groups(_, _)
Groups(fs, n) ==
    IF fs = <<>> THEN <<>>
    ELSE IF Len(fs) <= n THEN <<fs>>
    ELSE <<SubSeq(fs, 1, n)>> \o Groups(SubSeq(fs, n + 1, Len(fs)), n)

\* length of the run of consecutive frame numbers at the head of g
RECURSIVE RunLen(_)
RunLen(g) ==
    IF Len(g) >= 2 /\ g[2] = g[1] + 1 THEN 1 + RunLen(Tail(g)) ELSE 1

\* a group as a compact range expression: "5", "1-2", "1,3-4"
RECURSIVE FormatGroup(_)
FormatGroup(g) ==
    LET n == RunLen(g)
        run == IF n = 1 THEN IntToStr(g[1])
               ELSE IntToStr(g[1]) \o <<"-">> \o IntToStr(g[n])
    IN  IF n = Len(g) THEN run
        ELSE run \o <<",">> \o FormatGroup(SubSeq(g, n + 1, Len(g)))

\* frameChunker(frames, chunk_size): the chunks, or the error it throws.  When
\* the expression is malformed and the chunk size is not positive as well,
\* either error may be the one reported.
frameChunker(frames, chunk_size) ==
    LET parsed == ParseFrames(frames)
        errs == (IF parsed.ok THEN {} ELSE {MalformedFrameRange})
                \cup (IF chunk_size <= 0 THEN {InvalidChunkSize} ELSE {})
        groups == Groups(SortedSeq(parsed.frames), chunk_size)
    IN  IF errs # {}
        THEN {[ok |-> FALSE, chunks |-> <<>>, err |-> e] : e \in errs}
        ELSE {[ok |-> TRUE,
               chunks |-> [i \in 1..Len(groups) |-> FormatGroup(groups[i])],
               err |-> NoError]}

\* frameCount(chunk): the number of frames of a chunk
frameCount(chunk) == Cardinality(ParseFrames(chunk).frames)

----------------------------------------------------------------------------
(* The job types *)

\* the eval expression of the render_output_path setting: the directory the
\* job type derives, an optional {timestamp} folder, and <prefix>_######
evalRenderOutputPath(dir, prefix, stable_directory) ==
    IF stable_directory
    THEN dir \o <<"/">> \o prefix \o framePadding
    ELSE dir \o <<"/">> \o timestampPlaceholder \o <<"/">> \o prefix \o framePadding

\* p.replace(/{([^}]+)}/g, (match, key) => ...) from position i on
RECURSIVE ReplaceFrom(_, _, _)
ReplaceFrom(p, i, t) ==
    IF i > Len(p) THEN <<>>
    ELSE LET j == IF p[i] = "{" THEN IndexFrom(p, "}", i + 1) ELSE 0
         IN  IF j >= i + 2
             THEN LET match == SubSeq(p, i, j)
                      key == SubSeq(p, i + 1, j - 1)
                  IN  (IF key = timestampKey THEN formatTimestampLocal(t) ELSE match)
                      \o ReplaceFrom(p, j + 1, t)
             ELSE <<p[i]>> \o ReplaceFrom(p, i + 1, t)

\* faulty variant: every placeholder is replaced, whatever its key
RECURSIVE ReplaceAnyFrom(_, _, _)
ReplaceAnyFrom(p, i, t) ==
    IF i > Len(p) THEN <<>>
    ELSE LET j == IF p[i] = "{" THEN IndexFrom(p, "}", i + 1) ELSE 0
         IN  IF j >= i + 2
             THEN formatTimestampLocal(t) \o ReplaceAnyFrom(p, j + 1, t)
             ELSE <<p[i]>> \o ReplaceAnyFrom(p, i + 1, t)

renderOutputPath_AnyKey(job) ==
    ReplaceAnyFrom(job.settings.render_output_path, 1, job.created)

\* faulty variant: a timestamp folder is always inserted before the file name
renderOutputPath_AlwaysTimestamped(job) ==
    LET p == ReplaceFrom(job.settings.render_output_path, 1, job.created)
    IN  join(join(dirname(p), formatTimestampLocal(job.created)), basename(p))

renderOutputPath(job) ==
    ReplaceFrom(job.settings.render_output_path, 1, job.created)

\* faulty variant: the overwrite script appended after --render-frame
authorTask_OverwriteLast(s, renderDir, output, chunk) ==
    LET baseArgs == IF s.scene # <<>> THEN <<ArgScene, s.scene>> ELSE <<>>
        overwriteArgs == IF s.force_overwrite
                         THEN <<ArgPythonExpr, overwriteScript>>
                         ELSE <<>>
    IN  [name |-> taskNamePrefix \o chunk,
         type |-> "blender",
         command |-> [name |-> "blender-render",
                      exe |-> "{blender}",
                      exeArgs |-> "{blenderArgs}",
                      blendfile |-> s.blendfile,
                      args |-> baseArgs
                               \o <<ArgRenderOutput, join(renderDir, basename(output)),
                                    ArgRenderFormat, s.format,
                                    ArgRenderFrame, replaceAllDash(chunk)>>
                               \o overwriteArgs,
                      frames |-> frameCount(chunk)]]

\* the body of the loop over the chunks: one task with one command
authorTask(s, renderDir, output, chunk) ==
    LET baseArgs == IF s.scene # <<>> THEN <<ArgScene, s.scene>> ELSE <<>>
        overwriteArgs == IF s.force_overwrite
                         THEN <<ArgPythonExpr, overwriteScript>>
                         ELSE <<>>
    IN  [name |-> taskNamePrefix \o chunk,
         type |-> "blender",
         command |-> [name |-> "blender-render",
                      exe |-> "{blender}",
                      exeArgs |-> "{blenderArgs}",
                      blendfile |-> s.blendfile,
                      args |-> baseArgs \o overwriteArgs
                               \o <<ArgRenderOutput, join(renderDir, basename(output)),
                                    ArgRenderFormat, s.format,
                                    ArgRenderFrame, replaceAllDash(chunk)>>,
                      frames |-> frameCount(chunk)]]

\* faulty variant: the tasks pushed in reverse chunk order
authorRenderTasks_Reversed(s, renderDir, output, chunks) ==
    [i \in 1..Len(chunks) |->
        authorTask(s, renderDir, output, chunks[Len(chunks) + 1 - i])]

\* authorRenderTasks, given the chunks frameChunker returned
authorRenderTasks(s, renderDir, output, chunks) ==
    [i \in 1..Len(chunks) |-> authorTask(s, renderDir, output, chunks[i])]

\* if (videoFormats.includes(settings.format)) throw ...
formatRejected(s) == s.format \in videoFormats

\* faulty variant: the root check without the trim() test
rootMissing_NoTrim(s) ==
    \/ s.render_output_root = undefined
    \/ s.render_output_root = <<>>

\* if (!settings.render_output_root || `${settings.render_output_root}`.trim() === "") throw ...
rootMissing(s) ==
    \/ s.render_output_root = undefined
    \/ s.render_output_root = <<>>
    \/ trim(s.render_output_root) = <<>>

\* faulty variant: the format check placed after the path resolution
compileJobSteps_FormatLate(type) ==
    IF type = RootBased
    THEN <<"validateRoot", "resolve", "validateFormat", "author", "addTasks">>
    ELSE <<"resolve", "validateFormat", "author", "addTasks">>

\* faulty variant: the root check placed after the loop that adds the tasks
compileJobSteps_RootLate(type) ==
    IF type = RootBased
    THEN <<"validateFormat", "resolve", "author", "addTasks", "validateRoot">>
    ELSE <<"validateFormat", "resolve", "author", "addTasks">>

\* the statements of compileJob in the order each job type runs them
compileJobSteps(type) ==
    IF type = RootBased
    THEN <<"validateFormat", "validateRoot", "resolve", "author", "addTasks">>
    ELSE <<"validateFormat", "resolve", "author", "addTasks">>

\* the statement that follows statement step, "done" after the last one
After(type, step) ==
    LET steps == compileJobSteps(type)
        i == CHOOSE k \in 1..Len(steps) : steps[k] = step
    IN  IF i = Len(steps) THEN "done" ELSE steps[i + 1]

----------------------------------------------------------------------------
(* The inputs of a submission *)

Formats == videoFormats \cup {OPEN_EXR}

Roots == {undefined, <<>>, <<" ", "\t">>, <<"/", "f">>}

Scenes == {<<>>, <<"Scene">>}

\* the directory the job type derives for the output: plain, with an unmatched
\* opening brace in a folder name, with a placeholder other than timestamp
Dirs == {<<"/", "r">>, <<"/", "r", "{", "v">>, <<"/", "{", "x", "}">>}

Prefix == <<"A">>

Blendfile == <<"/proj/shot.blend">>

Part(a, b) ==
    IF a = b THEN IntToStr(a) ELSE IntToStr(a) \o <<"-">> \o IntToStr(b)

OnePart == {Part(a, b) : <<a, b>> \in {x \in (1..MaxFrame) \X (1..MaxFrame) : x[1] <= x[2]}}

\* two parts, the first one starting at frame 1: "1, 3-4", "1-2, 3"
TwoParts ==
    {Part(1, q[1]) \o <<",", " ">> \o Part(q[2], q[3]) :
        q \in {x \in (1..MaxFrame) \X (1..MaxFrame) \X (1..MaxFrame) :
                  x[1] < x[2] /\ x[2] <= x[3]}}

Malformed == {<<>>, <<"1", "-">>, <<"a">>}

FrameExprs == OnePart \cup TwoParts \cup Malformed

ChunkSizes == (-1)..MaxChunk

NoPrev == [created |-> 0, output |-> <<>>]

----------------------------------------------------------------------------
(* The state machine *)

Init ==
    /\ pc = "idle"
    /\ jobType = BlenderPath
    /\ created = 0
    /\ submitted = [frames |-> <<>>, chunk_size |-> 0, force_overwrite |-> FALSE,
                    stable_directory |-> FALSE, render_output_path |-> <<>>,
                    render_output_root |-> undefined, blendfile |-> <<>>,
                    scene |-> <<>>, format |-> <<>>]
    /\ settings = submitted
    /\ renderOutput = <<>>
    /\ tasks = <<>>
    /\ jobTasks = <<>>
    /\ error = NoError
    /\ prev = NoPrev
    /\ nsub = 0

\* a job is submitted: the add-on evaluates the settings, the Manager creates
\* the job and calls compileJob
Submit ==
    /\ pc = "idle"
    /\ \E type \in {BlenderPath, RootBased}, c \in {1},
          fr \in FrameExprs, cs \in ChunkSizes, fo \in BOOLEAN, sd \in BOOLEAN,
          dir \in Dirs, sc \in Scenes, fmt \in Formats, root \in Roots :
        /\ type = BlenderPath => root = undefined
        /\ jobType' = type
        /\ created' = c
        /\ submitted' = [frames |-> fr, chunk_size |-> cs, force_overwrite |-> fo,
                         stable_directory |-> sd,
                         render_output_path |-> evalRenderOutputPath(dir, Prefix, sd),
                         render_output_root |-> root, blendfile |-> Blendfile,
                         scene |-> sc, format |-> fmt]
        /\ settings' = submitted'
    /\ pc' = compileJobSteps(jobType')[1]
    /\ nsub' = 1
    /\ UNCHANGED <<renderOutput, tasks, jobTasks, error, prev>>

\* the same scene is submitted again later, with the same settings
Resubmit ==
    /\ pc = "done"
    /\ nsub < MaxSubmissions
    /\ \E c \in (created + 1)..MaxCreated : created' = c
    /\ prev' = [created |-> created, output |-> settings.render_output_path]
    /\ settings' = submitted
    /\ renderOutput' = <<>>
    /\ tasks' = <<>>
    /\ jobTasks' = <<>>
    /\ pc' = compileJobSteps(jobType)[1]
    /\ nsub' = nsub + 1
    /\ UNCHANGED <<jobType, submitted, error>>

ValidateFormat ==
    /\ pc = "validateFormat"
    /\ IF formatRejected(settings)
       THEN pc' = "failed" /\ error' = UnsupportedFormat
       ELSE pc' = After(jobType, pc) /\ error' = error
    /\ UNCHANGED <<jobType, created, submitted, settings, renderOutput, tasks,
                   jobTasks, prev, nsub>>

ValidateRoot ==
    /\ pc = "validateRoot"
    /\ IF rootMissing(settings)
       THEN pc' = "failed" /\ error' = MissingRequiredSetting
       ELSE pc' = After(jobType, pc) /\ error' = error
    /\ UNCHANGED <<jobType, created, submitted, settings, renderOutput, tasks,
                   jobTasks, prev, nsub>>

\* faulty variant: the resolved path is not written back to the settings
Resolve_NoWrite ==
    /\ pc = "resolve"
    /\ renderOutput' = renderOutputPath([created |-> created, settings |-> settings])
    /\ pc' = After(jobType, pc)
    /\ UNCHANGED <<jobType, created, submitted, settings, tasks, jobTasks,
                   error, prev, nsub>>

\* const renderOutput = renderOutputPath(job); settings.render_output_path = renderOutput;
Resolve ==
    /\ pc = "resolve"
    /\ renderOutput' = renderOutputPath([created |-> created, settings |-> settings])
    /\ settings' = [settings EXCEPT !.render_output_path = renderOutput']
    /\ pc' = After(jobType, pc)
    /\ UNCHANGED <<jobType, created, submitted, tasks, jobTasks, error, prev, nsub>>

\* faulty variant: an error of frameChunker is swallowed and no task is authored
Author_SwallowError ==
    /\ pc = "author"
    /\ \E out \in frameChunker(settings.frames, settings.chunk_size) :
          tasks' = authorRenderTasks(settings, dirname(renderOutput),
                                     renderOutput, out.chunks)
    /\ pc' = After(jobType, pc)
    /\ UNCHANGED <<jobType, created, submitted, settings, renderOutput,
                   jobTasks, error, prev, nsub>>

\* const renderDir = path.dirname(renderOutput);
\* const tasks = authorRenderTasks(settings, renderDir, renderOutput);
Author ==
    /\ pc = "author"
    /\ \E out \in frameChunker(settings.frames, settings.chunk_size) :
          IF out.ok
          THEN /\ tasks' = authorRenderTasks(settings, dirname(renderOutput),
                                             renderOutput, out.chunks)
               /\ pc' = After(jobType, pc)
               /\ error' = error
          ELSE /\ tasks' = tasks
               /\ pc' = "failed"
               /\ error' = out.err
    /\ UNCHANGED <<jobType, created, submitted, settings, renderOutput,
                   jobTasks, prev, nsub>>

\* for (const task of tasks) job.addTask(task);  -- one iteration
AddTask ==
    /\ pc = "addTasks"
    /\ Len(jobTasks) < Len(tasks)
    /\ jobTasks' = Append(jobTasks, tasks[Len(jobTasks) + 1])
    /\ UNCHANGED <<pc, jobType, created, submitted, settings, renderOutput,
                   tasks, error, prev, nsub>>

\* the loop over tasks ends
EndAddTasks ==
    /\ pc = "addTasks"
    /\ Len(jobTasks) = Len(tasks)
    /\ pc' = After(jobType, pc)
    /\ UNCHANGED <<jobType, created, submitted, settings, renderOutput, tasks,
                   jobTasks, error, prev, nsub>>

Next ==
    \/ Submit
    \/ Resubmit
    \/ ValidateFormat
    \/ ValidateRoot
    \/ Resolve
    \/ Author
    \/ AddTask
    \/ EndAddTasks

Spec == Init /\ [][Next]_vars

----------------------------------------------------------------------------
(* Reading a compiled job back *)

\* the frames a --render-frame value selects: "7", "3..9", "1,3..4"
RenderFramePart(part) ==
    LET i == IndexFrom(part, ".", 1)
    IN  IF i = 0 THEN {ParseInt(part)}
        ELSE IF i + 1 <= Len(part) /\ part[i + 1] = "."
        THEN ParseInt(SubSeq(part, 1, i - 1))..ParseInt(SubSeq(part, i + 2, Len(part)))
        ELSE {-1}

RenderFrameSet(arg) ==
    LET parts == Split(arg, ",")
    IN  UNION {RenderFramePart(parts[i]) : i \in 1..Len(parts)}

\* the value that follows flag in the argument list of task t, <<>> if absent
ArgValue(t, flag) ==
    LET a == t.command.args
    IN  IF \E i \in 1..(Len(a) - 1) : a[i] = flag
        THEN a[(CHOOSE i \in 1..(Len(a) - 1) : a[i] = flag) + 1]
        ELSE <<>>

HasFlag(t, flag) == \E i \in 1..Len(t.command.args) : t.command.args[i] = flag

\* the frames of the tasks ts, task by task, each task's frames ascending
RECURSIVE TaskFrames(_)
TaskFrames(ts) ==
    IF ts = <<>> THEN <<>>
    ELSE SortedSeq(RenderFrameSet(ArgValue(Head(ts), ArgRenderFrame)))
         \o TaskFrames(Tail(ts))

Compiling == pc \notin {"idle"}

Authored == pc \in {"addTasks", "done"}

IsBlank(r) == r = undefined \/ \A i \in 1..Len(r) : r[i] \in WhiteSpace

----------------------------------------------------------------------------
(* C1: with a video format (FFMPEG, AVI_RAW, AVI_JPEG) compileJob, in both  *)
(* job types, fails at its first statement: it never gets past the format   *)
(* check, the job has no task, nothing was resolved or chunked, and         *)
(* settings.render_output_path still holds the submitted value, whatever    *)
(* the other settings are.                                                  *)
C1_VideoFormatFailsFirst ==
    (Compiling /\ settings.format \in {FFMPEG, AVI_RAW, AVI_JPEG}) =>
        /\ pc \in {"validateFormat", "failed"}
        /\ pc = "failed" => error = UnsupportedFormat
        /\ jobTasks = <<>>
        /\ tasks = <<>>
        /\ renderOutput = <<>>
        /\ settings.render_output_path = submitted.render_output_path

C1_Witness ==
    /\ pc = "failed"
    /\ error = UnsupportedFormat
    /\ settings.format = AVI_JPEG
    /\ jobType = RootBased
    /\ IsBlank(settings.render_output_root)
    /\ settings.chunk_size <= 0
    /\ ~settings.stable_directory

(* C2 as stated: in the root-relative job type a render_output_root that is *)
(* absent, empty or only whitespace makes compileJob fail with the          *)
(* missing-required-setting error, with no task added; a non-blank root     *)
(* never raises that error.                                                 *)
C2_Original ==
    (jobType = RootBased /\ pc \in {"failed", "done"}) =>
        IF IsBlank(settings.render_output_root)
        THEN pc = "failed" /\ error = MissingRequiredSetting /\ jobTasks = <<>>
        ELSE error # MissingRequiredSetting

(* C2 amended: in the root-relative job type, when the format is allowed, a *)
(* root that is absent, empty or only whitespace makes compileJob fail at   *)
(* the root check with the missing-required-setting error and no task; a    *)
(* non-blank root never raises that error.  (With a video format the job    *)
(* fails earlier, with the unsupported-format error.)                       *)
C2_BlankRootRejected ==
    (jobType = RootBased /\ Compiling /\ settings.format \notin videoFormats) =>
        IF IsBlank(settings.render_output_root)
        THEN /\ pc \in {"validateFormat", "validateRoot", "failed"}
             /\ pc = "failed" => error = MissingRequiredSetting
             /\ jobTasks = <<>>
             /\ tasks = <<>>
        ELSE error # MissingRequiredSetting

C2_Witness ==
    /\ jobType = RootBased
    /\ pc = "failed"
    /\ error = MissingRequiredSetting
    /\ settings.render_output_root = <<" ", "\t">>
    /\ settings.format = OPEN_EXR

(* C3: for a valid frame-range expression and a chunk size >= 1, the tasks  *)
(* authored, in the order they are added to the job, cover the parsed frame *)
(* set exactly: their frames concatenated are the parsed frames in          *)
(* ascending order, each once; every task holds at most chunk_size frames   *)
(* and only the last may hold fewer.                                        *)
C3_TasksCoverFrames ==
    Authored =>
        LET all == SortedSeq(ParseFrames(settings.frames).frames)
            n == Len(tasks)
            size(i) == Cardinality(RenderFrameSet(ArgValue(tasks[i], ArgRenderFrame)))
        IN  /\ settings.chunk_size >= 1
            /\ ParseFrames(settings.frames).ok
            /\ TaskFrames(tasks) = all
            /\ \A i \in 1..n : size(i) <= settings.chunk_size
            /\ \A i \in 1..(n - 1) : size(i) = settings.chunk_size
            /\ \A i \in 1..n : size(i) >= 1 /\ tasks[i].command.frames = size(i)
            /\ jobTasks = SubSeq(tasks, 1, Len(jobTasks))
            /\ pc = "done" => TaskFrames(jobTasks) = all

C3_Witness ==
    /\ pc = "done"
    /\ settings.frames = <<"1", "-", "5">>
    /\ settings.chunk_size = 2
    /\ Len(jobTasks) = 3
    /\ jobTasks[1].name = taskNamePrefix \o <<"1", "-", "2">>
    /\ jobTasks[2].name = taskNamePrefix \o <<"3", "-", "4">>
    /\ jobTasks[3].name = taskNamePrefix \o <<"5">>
    /\ jobTasks[3].command.frames = 1

(* C4: there is no partial success.  compileJob either completes with one   *)
(* task per chunk added to the job, or fails with no task added; no failure *)
(* is raised once the first task has been added.                            *)
C4_NoPartialSuccess ==
    LET n == Cardinality(ParseFrames(settings.frames).frames)
        k == Len(jobTasks)
    IN  /\ pc = "failed" => jobTasks = <<>> /\ error # NoError
        /\ jobTasks # <<>> => pc \in {"addTasks", "done"} /\ error = NoError
        /\ pc = "done" =>
              /\ k >= 1
              /\ k * settings.chunk_size >= n
              /\ (k - 1) * settings.chunk_size < n

C4_Witness ==
    /\ pc = "failed"
    /\ error = MalformedFrameRange
    /\ renderOutput # <<>>
    /\ settings.chunk_size = MaxChunk
    /\ jobTasks = <<>>

(* C5 as stated: whenever chunk_size <= 0, compileJob fails with the        *)
(* InvalidChunkSize error and produces no task, for every frame-range       *)
(* expression and in both job types.                                        *)
C5_Original ==
    (settings.chunk_size <= 0 /\ pc \in {"failed", "done"}) =>
        pc = "failed" /\ error = InvalidChunkSize /\ jobTasks = <<>>

(* C5 amended: whenever chunk_size <= 0, compileJob fails and produces no   *)
(* task, for every frame-range expression and in both job types; the error  *)
(* is InvalidChunkSize when the checks that run before chunking pass (the   *)
(* format is allowed, the root is non-blank in the root-relative job type)  *)
(* and the frame-range expression is well formed; otherwise the job fails   *)
(* with the error of an earlier or concurrent violation.                    *)
C5_NonPositiveChunkSizeFails ==
    (Compiling /\ settings.chunk_size <= 0) =>
        /\ pc \notin {"addTasks", "done"}
        /\ tasks = <<>>
        /\ jobTasks = <<>>
        /\ (/\ pc = "failed"
            /\ settings.format \notin videoFormats
            /\ jobType = RootBased => ~IsBlank(settings.render_output_root)
            /\ ParseFrames(settings.frames).ok) => error = InvalidChunkSize

C5_Witness ==
    /\ pc = "failed"
    /\ error = InvalidChunkSize
    /\ settings.chunk_size = 0
    /\ jobType = BlenderPath
    /\ settings.frames = <<"1", "-", "5">>

\* every task carries the same --render-output value
SameRenderOutput(ts) ==
    \A i, j \in 1..Len(ts) :
        ArgValue(ts[i], ArgRenderOutput) = ArgValue(ts[j], ArgRenderOutput)

(* C6: for a job compiled with stable-directory disabled (the template      *)
(* holds the {timestamp} placeholder), all tasks carry the same             *)
(* --render-output value, it holds the timestamp derived from job.created,  *)
(* and the literal text {timestamp} appears neither in                      *)
(* settings.render_output_path after resolution nor in any task's           *)
(* --render-output argument, whatever the other text of the template is.    *)
C6_Original ==
    (~settings.stable_directory /\ Authored) =>
        /\ SameRenderOutput(tasks)
        /\ Includes(settings.render_output_path, formatTimestampLocal(created))
        /\ ~Includes(settings.render_output_path, timestampPlaceholder)
        /\ \A i \in 1..Len(tasks) :
              /\ HasFlag(tasks[i], ArgRenderOutput)
              /\ Includes(ArgValue(tasks[i], ArgRenderOutput), formatTimestampLocal(created))
              /\ ~Includes(ArgValue(tasks[i], ArgRenderOutput), timestampPlaceholder)

(* C7: with stable-directory enabled (no {timestamp} segment in the         *)
(* template) the resolved path does not depend on job.created: all tasks of *)
(* a job carry the same --render-output value and directory, and a second   *)
(* submission of the same settings at a later time resolves to the          *)
(* byte-identical path and the byte-identical directory.                    *)
C7_StablePathIndependentOfTime ==
    (/\ settings.stable_directory
     /\ ~Includes(submitted.render_output_path, timestampPlaceholder)
     /\ renderOutput # <<>>) =>
        /\ prev # NoPrev =>
              /\ renderOutput = prev.output
              /\ settings.render_output_path = prev.output
              /\ dirname(renderOutput) = dirname(prev.output)
        /\ \A i \in 1..Len(tasks) :
              /\ \A j \in 1..Len(tasks) :
                    dirname(ArgValue(tasks[i], ArgRenderOutput))
                        = dirname(ArgValue(tasks[j], ArgRenderOutput))
              /\ prev # NoPrev =>
                    /\ ArgValue(tasks[i], ArgRenderOutput) = prev.output
                    /\ dirname(ArgValue(tasks[i], ArgRenderOutput)) = dirname(prev.output)

C7_Witness ==
    /\ pc = "done"
    /\ nsub = 2
    /\ settings.stable_directory
    /\ prev.created # created
    /\ prev.output = settings.render_output_path
    /\ Includes(settings.render_output_path, <<"{", "x", "}">>)
    /\ Len(jobTasks) >= 2

(* C8: every task's argument list has the fixed order: --scene and the      *)
(* scene name exactly when a scene name is configured; then --python-expr   *)
(* and the overwrite script exactly when force_overwrite is set; then       *)
(* --render-output and the path; then --render-format and the format; then  *)
(* --render-frame and the chunk's range token with '..' as range separator. *)
(* The overwrite script precedes --render-frame and the rewrite leaves the  *)
(* frame numbers of the chunk unchanged.                                    *)
C8_ArgumentOrder ==
    Authored =>
        \A i \in 1..Len(tasks) :
            LET a == tasks[i].command.args
                n0 == IF settings.scene # <<>> THEN 2 ELSE 0
                n1 == n0 + (IF settings.force_overwrite THEN 2 ELSE 0)
                chunk == SubSeq(tasks[i].name, Len(taskNamePrefix) + 1, Len(tasks[i].name))
            IN  /\ Len(a) = n1 + 6
                /\ IF settings.scene # <<>>
                   THEN a[1] = ArgScene /\ a[2] = settings.scene
                   ELSE ~HasFlag(tasks[i], ArgScene)
                /\ IF settings.force_overwrite
                   THEN a[n0 + 1] = ArgPythonExpr /\ a[n0 + 2] = overwriteScript
                   ELSE ~HasFlag(tasks[i], ArgPythonExpr)
                /\ a[n1 + 1] = ArgRenderOutput
                /\ a[n1 + 2] = renderOutput
                /\ a[n1 + 3] = ArgRenderFormat
                /\ a[n1 + 4] = settings.format
                /\ a[n1 + 5] = ArgRenderFrame
                /\ ~Includes(a[n1 + 6], <<"-">>)
                /\ SubSeq(tasks[i].name, 1, Len(taskNamePrefix)) = taskNamePrefix
                /\ ParseFrames(chunk).ok
                /\ RenderFrameSet(a[n1 + 6]) = ParseFrames(chunk).frames

C8_Witness ==
    /\ pc = "done"
    /\ settings.scene # <<>>
    /\ settings.force_overwrite
    /\ Len(jobTasks) = 2
    /\ jobTasks[1].command.args[4] = overwriteScript
    /\ jobTasks[1].command.args[10] = <<"1", ".", ".", "2">>
    /\ jobTasks[2].command.args[10] = <<"4", ".", ".", "5">>

(* C9 as stated: settings.render_output_path is write-once-then-read: no    *)
(* step of compileJob changes it, so it holds the submitted template        *)
(* (including any {timestamp} placeholder) before and after compilation.    *)
C9_Original ==
    Compiling => settings.render_output_path = submitted.render_output_path

(* C9 amended: compileJob writes settings.render_output_path once, right    *)
(* after resolution, replacing the template by the resolved path; from then *)
(* on no step of compileJob changes the field, and resolving the stored     *)
(* value again returns it unchanged.  The field keeps the submitted         *)
(* template only when resolution substituted nothing.                       *)
C9_WrittenOnceWithResolvedPath ==
    /\ [](Compiling =>
            IF renderOutput = <<>>
            THEN settings.render_output_path = submitted.render_output_path
            ELSE /\ settings.render_output_path = renderOutput
                 /\ renderOutputPath([created |-> created, settings |-> settings])
                       = settings.render_output_path
                 /\ renderOutput =
                       renderOutputPath([created |-> created, settings |-> submitted]))
    /\ [][(pc \in {"author", "addTasks"}) =>
             settings'.render_output_path = settings.render_output_path]_vars

C9_Witness ==
    /\ pc = "done"
    /\ settings.render_output_path # submitted.render_output_path
    /\ Includes(submitted.render_output_path, timestampPlaceholder)
    /\ ~Includes(settings.render_output_path, timestampPlaceholder)
    /\ Len(jobTasks) = 3

----------------------------------------------------------------------------
(* Path resolution on arbitrary templates *)

Segments ==
    {<<"/", "r">>, <<"{">>, <<"}">>, timestampKey, timestampPlaceholder,
     <<"{", "x", "}">>}

RECURSIVE SegmentSeqs(_)
SegmentSeqs(n) ==
    IF n = 0 THEN {<<>>}
    ELSE LET shorter == SegmentSeqs(n - 1)
         IN  shorter \cup {<<g>> \o q : g \in Segments, q \in {x \in shorter : Len(x) = n - 1}}

PathTemplates == {Concat(q) : q \in SegmentSeqs(MaxSegments) \ {<<>>}}

\* a submission whose output-path template is arbitrary text
SubmitPath ==
    /\ pc = "idle"
    /\ \E type \in {BlenderPath, RootBased}, c \in 1..MaxCreated, tpl \in PathTemplates :
        /\ jobType' = type
        /\ created' = c
        /\ submitted' = [frames |-> <<"1", "-", "2">>, chunk_size |-> 1,
                         force_overwrite |-> TRUE,
                         stable_directory |-> ~Includes(tpl, timestampPlaceholder),
                         render_output_path |-> tpl,
                         render_output_root |->
                             IF type = RootBased THEN <<"/", "f">> ELSE undefined,
                         blendfile |-> Blendfile,
                         scene |-> <<"Scene">>, format |-> OPEN_EXR]
        /\ settings' = submitted'
    /\ pc' = compileJobSteps(jobType')[1]
    /\ nsub' = 1
    /\ UNCHANGED <<renderOutput, tasks, jobTasks, error, prev>>

NextPath ==
    \/ SubmitPath
    \/ ValidateFormat
    \/ ValidateRoot
    \/ Resolve
    \/ Author
    \/ AddTask
    \/ EndAddTasks

SpecPath == Init /\ [][NextPath]_vars

\* the positions at which the text {timestamp} occurs in p
Occurrences(p) ==
    {i \in 1..(Len(p) - Len(timestampPlaceholder) + 1) :
        SubSeq(p, i, i + Len(timestampPlaceholder) - 1) = timestampPlaceholder}

\* p with the occurrences of {timestamp} at the positions K replaced by ts
RECURSIVE SubstAt(_, _, _, _)
SubstAt(p, i, K, ts) ==
    IF i > Len(p) THEN <<>>
    ELSE IF i \in K THEN ts \o SubstAt(p, i + Len(timestampPlaceholder), K, ts)
    ELSE <<p[i]>> \o SubstAt(p, i + 1, K, ts)

\* the brace-delimited tokens {name} of p, name without braces
BraceTokens(p) ==
    {SubSeq(p, x[1], x[2]) :
        x \in {y \in (1..Len(p)) \X (1..Len(p)) :
                  /\ y[2] >= y[1] + 2
                  /\ p[y[1]] = "{"
                  /\ p[y[2]] = "}"
                  /\ \A k \in (y[1] + 1)..(y[2] - 1) : p[k] \notin {"{", "}"}}}

Count(s, t) ==
    Cardinality({i \in 1..(Len(s) - Len(t) + 1) : SubSeq(s, i, i + Len(t) - 1) = t})

(* C10: renderOutputPath substitutes only the recognized placeholder: the   *)
(* resolved path is the template with some occurrences of {timestamp}       *)
(* replaced by the timestamp and every other character unchanged; every     *)
(* brace token {name} with another name is still there verbatim, no error   *)
(* is raised, and a template without brace token is returned unchanged.     *)
C10_OnlyTimestampSubstituted ==
    renderOutput # <<>> =>
        LET p == submitted.render_output_path
            ts == formatTimestampLocal(created)
        IN  /\ error = NoError
            /\ \E K \in SUBSET Occurrences(p) : SubstAt(p, 1, K, ts) = renderOutput
            /\ \A tok \in BraceTokens(p) :
                  tok # timestampPlaceholder =>
                      Count(renderOutput, tok) = Count(p, tok) /\ Count(p, tok) >= 1
            /\ BraceTokens(p) = {} => renderOutput = p

C10_Witness ==
    /\ pc = "done"
    /\ submitted.render_output_path
          = <<"{", "x", "}">> \o timestampPlaceholder \o <<"{", "x", "}">>
    /\ renderOutput
          = <<"{", "x", "}">> \o formatTimestampLocal(created) \o <<"{", "x", "}">>

====
